---- MODULE Spec2Model ----
(***************************************************************************)
(* A model of verschemes: version schemes declared as segment definitions, *)
(* instances constructed from values or parsed from text, cooked and raw   *)
(* access, rendering, comparison and replace.                              *)
(*                                                                         *)
(* Text is a sequence of one-character strings.  A Python value is a       *)
(* tagged tuple: None, an int, a str (text) or a tuple of values.          *)
(***************************************************************************)
EXTENDS Integers, Sequences, FiniteSets, TLC

\* ------------------------------------------------------------------ bounds

\* Largest valid integer a caller passes as a segment value.
MaxInt == 1
\* Longest version string a caller passes to the constructor.
MaxStrLen == 4

\* ------------------------------------------------------------------ values

None == <<"N">>
I(n) == <<"I", n>>
S(t) == <<"S", t>>
T(vs) == <<"T", vs>>

IsNone(v) == v[1] = "N"
IsInt(v) == v[1] = "I"
IsStr(v) == v[1] = "S"
IsTuple(v) == v[1] = "T"

\* ------------------------------------------------------------------ text

DigitChars == <<"0", "1", "2", "3", "4", "5", "6", "7", "8", "9">>

IsDigit(c) == \E k \in 1..10 : DigitChars[k] = c

DigitVal(c) == (CHOOSE k \in 1..10 : DigitChars[k] = c) - 1

RECURSIVE NatToText(_)
\* str(n) for n >= 0: the decimal digits, most significant first.
NatToText(n) ==
    IF n < 10 THEN <<DigitChars[n + 1]>>
    ELSE Append(NatToText(n \div 10), DigitChars[(n % 10) + 1])

\* str(n) for an int n.
IntToText(n) == IF n < 0 THEN <<"-">> \o NatToText(0 - n) ELSE NatToText(n)

RECURSIVE DigitsToNat(_)
\* int(t) for a text of decimal digits.
DigitsToNat(t) ==
    IF Len(t) = 0 THEN 0
    ELSE 10 * DigitsToNat(SubSeq(t, 1, Len(t) - 1)) + DigitVal(t[Len(t)])

AllDigits(t) == Len(t) > 0 /\ \A k \in 1..Len(t) : IsDigit(t[k])

\* int(v): [err, val].
IntOf(v) ==
    IF IsInt(v) THEN [err |-> "none", val |-> v]
    ELSE IF IsStr(v) THEN
        LET t == v[2]
            neg == Len(t) > 0 /\ t[1] = "-"
            d == IF Len(t) > 0 /\ t[1] \in {"-", "+"} THEN Tail(t) ELSE t
        IN IF AllDigits(d)
           THEN [err |-> "none",
                 val |-> I(IF neg THEN 0 - DigitsToNat(d) ELSE DigitsToNat(d))]
           ELSE [err |-> "ValueError", val |-> None]
    ELSE [err |-> "TypeError", val |-> None]

\* str(v) for None, an int or a str.
StrOf(v) ==
    IF IsNone(v) THEN <<"N", "o", "n", "e">>
    ELSE IF IsInt(v) THEN IntToText(v[2])
    ELSE v[2]

\* ------------------------------------------------------------ SegmentField

\* The field patterns in use, named:
\*   INT     0|[1-9][0-9]*                          (the default)
\*   LEVEL   [+abc]
\*   SERIAL  (?<=[+])|(?<![+])(?:0|[1-9][0-9]*)
\* and the render functions: "str" (the default) and "serial"
\* (lambda x: "" if x is None else str(x)).
SegmentField(type, name, re_pattern, render) ==
    [type |-> type, name |-> name, re_pattern |-> re_pattern, render |-> render]

DEFAULT_SEGMENT_FIELD ==
    SegmentField("int", <<"v", "a", "l", "u", "e">>, "INT", "str")

\* field.render(v)
FieldRender(f, v) ==
    IF f.render = "serial" /\ IsNone(v) THEN <<>> ELSE StrOf(v)

\* field.type(v): [err, val].
FieldType(f, v) ==
    IF f.type = "int" THEN IntOf(v) ELSE [err |-> "none", val |-> S(StrOf(v))]

\* --------------------------------------------------------------- matching

\* The end of the longest run of digits of s that starts at position p.
RECURSIVE DigitRunEnd(_, _)
DigitRunEnd(s, p) ==
    IF p <= Len(s) /\ IsDigit(s[p]) THEN DigitRunEnd(s, p + 1) ELSE p

\* [e, e-1, ..., lo]: the ends a greedy repetition tries, longest first.
RECURSIVE Downto(_, _)
Downto(e, lo) == IF e < lo THEN <<>> ELSE <<e>> \o Downto(e - 1, lo)

\* 0|[1-9][0-9]* at position p of s: the positions after each way to match,
\* in the order the backtracking matcher tries them.
IntEnds(s, p) ==
    IF p > Len(s) THEN <<>>
    ELSE IF s[p] = "0" THEN <<p + 1>>
    ELSE IF IsDigit(s[p]) THEN Downto(DigitRunEnd(s, p + 1), p + 1)
    ELSE <<>>

\* The field patterns as they would be if the serial pattern were an
\* optional number without the look-behind for "+".
PatternEnds_no_lookbehind(pat, s, p) ==
    IF pat = "INT" THEN IntEnds(s, p)
    ELSE IF pat = "LEVEL" THEN
        IF p <= Len(s) /\ s[p] \in {"+", "a", "b", "c"} THEN <<p + 1>> ELSE <<>>
    ELSE IntEnds(s, p) \o <<p>>

\* A field pattern at position p of s: the end positions, in matching order.
PatternEnds(pat, s, p) ==
    IF pat = "INT" THEN IntEnds(s, p)
    ELSE IF pat = "LEVEL" THEN
        IF p <= Len(s) /\ s[p] \in {"+", "a", "b", "c"} THEN <<p + 1>> ELSE <<>>
    ELSE \* SERIAL
        IF p > 1 /\ s[p - 1] = "+" THEN <<p>> ELSE IntEnds(s, p)

\* The concatenation of sequences.
RECURSIVE Flatten(_)
Flatten(ss) == IF Len(ss) = 0 THEN <<>> ELSE Head(ss) \o Flatten(Tail(ss))

\* The patterns of fields k.. in sequence, from position p of s: every way to
\* match, in matching order, as the positions where each field ends.
RECURSIVE FieldsMatches(_, _, _, _)
FieldsMatches(fields, k, s, p) ==
    IF k > Len(fields) THEN << <<>> >>
    ELSE LET ends == PatternEnds(fields[k].re_pattern, s, p)
         IN Flatten([j \in 1..Len(ends) |->
                LET rest == FieldsMatches(fields, k + 1, s, ends[j])
                IN [m \in 1..Len(rest) |-> <<ends[j]>> \o rest[m]]])

\* The position after a match m (field ends) that started at p.
MatchEnd(m, p) == IF Len(m) = 0 THEN p ELSE m[Len(m)]

\* The first element of seq that satisfies Ok, as <<element>>, or <<>>.
FirstThat(seq, Ok(_)) ==
    LET hits == {j \in 1..Len(seq) : Ok(seq[j])}
    IN IF hits = {} THEN <<>>
       ELSE <<seq[CHOOSE j \in hits : \A h \in hits : j <= h]>>

\* -------------------------------------------------------- SegmentDefinition

\* The text rendered for a non-text segment value: each field renders its
\* value converted to the field type, a missing trailing value as None.
\* [err, text].
RECURSIVE ValueString(_, _, _)
\* The step of ValueString for field k, c its converted value: [err, val].
ValueStringStep(fields, values, k, c) ==
    IF c.err # "none" THEN [err |-> c.err, text |-> <<>>]
    ELSE LET rest == ValueString(fields, values, k + 1)
         IN IF rest.err # "none" THEN rest
            ELSE [err |-> "none",
                  text |-> FieldRender(fields[k], c.val) \o rest.text]

ValueString(fields, values, k) ==
    IF k > Len(fields) THEN [err |-> "none", text |-> <<>>]
    ELSE IF k > Len(values) \/ IsNone(values[k])
         THEN ValueStringStep(fields, values, k, [err |-> "none", val |-> None])
    ELSE ValueStringStep(fields, values, k, FieldType(fields[k], values[k]))

\* The decoded value of field k from the text it captured.
FieldDecode(f, g) ==
    IF Len(g) = 0 /\ f.type # "str" THEN None ELSE FieldType(f, S(g)).val

\* The text a segment value is matched as: the value itself if it is text,
\* else the rendering of its field values.  [err, text].
ValueText(value, fields) ==
    IF IsStr(value) THEN [err |-> "none", text |-> value[2]]
    ELSE IF IsTuple(value) THEN
        IF Len(value[2]) > Len(fields)
        THEN [err |-> "ValueError", text |-> <<>>]
        ELSE ValueString(fields, value[2], 1)
    ELSE ValueString(fields, <<value>>, 1)

\* re.match of ^(?P<f1>p1)...(?P<fk>pk)$ against t: <<the field ends>> of
\* the first match, or <<>>.
MatchWhole(fields, t) ==
    FirstThat(FieldsMatches(fields, 1, t, 1),
              LAMBDA m : MatchEnd(m, 1) = Len(t) + 1)

\* The values decoded from the groups of a match: [err, val].
DecodeGroups(fields, t, found) ==
    IF found = <<>> THEN [err |-> "ValueError", val |-> None]
    ELSE LET result == [k \in 1..Len(fields) |->
                 FieldDecode(fields[k],
                     SubSeq(t, IF k = 1 THEN 1 ELSE found[1][k - 1],
                            found[1][k] - 1))]
         IN [err |-> "none",
             val |-> IF Len(fields) = 1 THEN result[1] ELSE T(result)]

\* The match and decoding of the text vs of a segment value: [err, val].
MatchText(fields, vs) ==
    IF vs.err # "none" THEN [err |-> vs.err, val |-> None]
    ELSE DecodeGroups(fields, vs.text, MatchWhole(fields, vs.text))

\* SegmentDefinition._validate_value(value, fields): [err, val].
_validate_value(value, fields) == MatchText(fields, ValueText(value, fields))

\* SegmentDefinition(optional, default, separator, fields, name), the default
\* given as the value its validation returns; name <<>> stands for no name.
SegmentDefinition(optional, default, separator, fields, name) ==
    [optional |-> optional, default |-> default,
     separator |-> separator, fields |-> fields, name |-> name]

DEFAULT_SEGMENT_SEPARATOR == <<".">>

DEFAULT_SEGMENT_DEFINITION ==
    SegmentDefinition(FALSE, None, DEFAULT_SEGMENT_SEPARATOR,
                      <<DEFAULT_SEGMENT_FIELD>>, <<>>)

\* SegmentDefinition.required
required(d) == ~d.optional /\ IsNone(d.default)

\* validate_value as it would be if it put the default in place of an absent
\* value.
validate_value_substituting(d, value) ==
    IF IsNone(value)
    THEN IF ~d.optional /\ IsNone(d.default)
         THEN [err |-> "ValueError", val |-> None]
         ELSE [err |-> "none", val |-> d.default]
    ELSE _validate_value(value, d.fields)

\* SegmentDefinition.validate_value(value): [err, val].
validate_value(d, value) ==
    IF IsNone(value)
    THEN IF ~d.optional /\ IsNone(d.default)
         THEN [err |-> "ValueError", val |-> None]
         ELSE [err |-> "none", val |-> value]
    ELSE _validate_value(value, d.fields)

\* The concatenation of the fields' renderings of the elements of a tuple.
RECURSIVE RenderFields(_, _, _)
RenderFields(fields, vs, k) ==
    IF k > Len(fields) THEN <<>>
    ELSE FieldRender(fields[k], vs[k]) \o RenderFields(fields, vs, k + 1)

\* SegmentDefinition.render(value)
segment_render(d, value) ==
    IF Len(d.fields) = 1 THEN FieldRender(d.fields[1], value)
    ELSE RenderFields(d.fields, value[2], 1)

\* ----------------------------------------------------------------- schemes

NoName == <<>>

IntSegment(optional, default, name) ==
    SegmentDefinition(optional, default, DEFAULT_SEGMENT_SEPARATOR,
                      <<DEFAULT_SEGMENT_FIELD>>, name)

\* PythonVersion.SEGMENT_DEFINITIONS: MAJOR.MINOR[.MICRO][{releaselevel}{serial}]
PythonSegments ==
    << IntSegment(FALSE, None, NoName),
       IntSegment(FALSE, None, NoName),
       IntSegment(TRUE, None, NoName),
       SegmentDefinition(TRUE, None, <<>>,
           << SegmentField("str",
                  <<"r","e","l","e","a","s","e","l","e","v","e","l">>,
                  "LEVEL", "str"),
              SegmentField("int", <<"s","e","r","i","a","l">>,
                  "SERIAL", "serial") >>,
           NoName) >>

\* A scheme (required int).(required int).(optional int, default 0) with
\* named segments.
ScenarioSegments ==
    << IntSegment(FALSE, None, <<"m","a","j","o","r">>),
       IntSegment(FALSE, None, <<"m","i","n","o","r">>),
       IntSegment(TRUE, I(0), <<"m","i","c","r","o">>) >>

\* A scheme with an optional segment that has no default before a segment
\* that is not optional and has a default; its validate() override requires
\* that y, when present, does not exceed z.
MixSegments ==
    << IntSegment(FALSE, None, <<"x">>),
       IntSegment(TRUE, None, <<"y">>),
       IntSegment(FALSE, I(1), <<"z">>) >>

\* A scheme (required int).(optional int, default 0).(optional int) with
\* unnamed segments: an optional segment with a default before another
\* segment.
DefaultedSegments ==
    << IntSegment(FALSE, None, NoName),
       IntSegment(TRUE, I(0), NoName),
       IntSegment(TRUE, None, NoName) >>

\* A scheme (optional int).(required int) with unnamed segments: a segment
\* after segments none of which is required.
LeadingSegments ==
    << IntSegment(TRUE, None, NoName),
       IntSegment(FALSE, None, NoName) >>

\* The scheme types: Version itself (the empty, unbounded default),
\* PythonVersion, and four declared by a caller.
Schemes == {"Version", "PythonVersion", "Scenario", "Mix", "Defaulted", "Leading"}

\* cls.SEGMENT_DEFINITIONS
SEGMENT_DEFINITIONS(cls) ==
    IF cls = "Version" THEN <<>>
    ELSE IF cls = "PythonVersion" THEN PythonSegments
    ELSE IF cls = "Scenario" THEN ScenarioSegments
    ELSE IF cls = "Mix" THEN MixSegments
    ELSE IF cls = "Defaulted" THEN DefaultedSegments
    ELSE LeadingSegments

\* Version._get_definitions(): the segment definitions of the scheme type.
_get_definitions(cls) == SEGMENT_DEFINITIONS(cls)

\* The index (from 0) of the segment named k, or -1.
SegmentIndex(definitions, k) ==
    LET hits == {i \in 1..Len(definitions) :
                    definitions[i].name # NoName /\ definitions[i].name = k}
    IN IF hits = {} THEN 0 - 1 ELSE (CHOOSE i \in hits : TRUE) - 1

\* ----------------------------------------------------------------- grammar

\* The grammar as it would be if no segment's group were made optional.
_get_re_all_required(cls) ==
    LET definitions == _get_definitions(cls)
    IN [i \in 1..Len(definitions) |->
          [has_separator |-> i > 1,
           separator |-> definitions[i].separator,
           separator_optional |->
               i > 1 /\ \A j \in 1..(i - 1) : ~required(definitions[j]),
           fields |-> definitions[i].fields,
           optional |-> FALSE]]

\* Version._get_re(): the compiled grammar, one piece per segment:
\*   [(?:separator)[?]] (?P<segmentI>pattern), the whole in (?:...)? when the
\* segment is not required.
_get_re(cls) ==
    LET definitions == _get_definitions(cls)
    IN [i \in 1..Len(definitions) |->
          [has_separator |-> i > 1,
           separator |-> definitions[i].separator,
           separator_optional |->
               i > 1 /\ \A j \in 1..(i - 1) : ~required(definitions[j]),
           fields |-> definitions[i].fields,
           optional |-> ~required(definitions[i])]]

NoMatch == <<"fail">>

StartsWith(s, p, t) ==
    /\ p + Len(t) - 1 <= Len(s)
    /\ \A k \in 1..Len(t) : s[p + k - 1] = t[k]

\* The ways piece i of the grammar matches at position p of s, in matching
\* order, each as [end, group]: with its separator, without it where the
\* separator is optional, and not at all where the piece is optional.
\* The matches ms of a segment pattern from position q of s, each as
\* [end, group].
Captures(ms, s, q) ==
    [m \in 1..Len(ms) |->
        [end |-> MatchEnd(ms[m], q),
         group |-> S(SubSeq(s, q, MatchEnd(ms[m], q) - 1))]]

SegmentMatches(fields, s, q) == Captures(FieldsMatches(fields, 1, s, q), s, q)

PieceMatches(piece, s, p) ==
    (IF ~piece.has_separator THEN SegmentMatches(piece.fields, s, p)
     ELSE IF StartsWith(s, p, piece.separator)
          THEN SegmentMatches(piece.fields, s, p + Len(piece.separator))
     ELSE <<>>)
    \o (IF piece.has_separator /\ piece.separator_optional
        THEN SegmentMatches(piece.fields, s, p) ELSE <<>>)
    \o (IF piece.optional THEN <<[end |-> p, group |-> None]>> ELSE <<>>)

\* re.match of pieces i.. of the grammar from position p of s, anchored at
\* the end: the groups of the first match in matching order, or NoMatch.
RECURSIVE MatchFrom(_, _, _, _)
\* The groups of the match that takes piece i as found, or NoMatch.
MatchWith(re, i, s, found) ==
    IF found = <<>> THEN NoMatch
    ELSE <<found[1].group>> \o MatchFrom(re, i + 1, s, found[1].end)

MatchFrom(re, i, s, p) ==
    IF i > Len(re) THEN (IF p = Len(s) + 1 THEN <<>> ELSE NoMatch)
    ELSE MatchWith(re, i, s,
             FirstThat(PieceMatches(re[i], s, p),
                       LAMBDA c : MatchFrom(re, i + 1, s, c.end) # NoMatch))

\* re.match(string).groups(), or NoMatch.
re_match(re, s) == MatchFrom(re, 1, s, 1)

\* string.split(sep) for a one-character separator.
RECURSIVE Split(_, _)
Split(s, sep) ==
    LET hits == {k \in 1..Len(s) : s[k] = sep}
    IN IF hits = {} THEN <<S(s)>>
       ELSE LET k == CHOOSE h \in hits : \A g \in hits : h <= g
            IN <<S(SubSeq(s, 1, k - 1))>> \o Split(SubSeq(s, k + 1, Len(s)), sep)

\* ----------------------------------------------------------------- Version

\* Version.get_raw_item(i) for an index i (from 0).
get_raw_item(raw, i) == raw[i + 1]

\* Version._get_segment_definition(): the definitions of the instance's
\* segments, the default definition for each under the default scheme.
_get_segment_definition(cls, raw) ==
    IF Len(_get_definitions(cls)) > 0 THEN _get_definitions(cls)
    ELSE [i \in 1..Len(raw) |-> DEFAULT_SEGMENT_DEFINITION]

\* get(v, d) of Version.__getitem__
Cook(v, d) == IF ~IsNone(v) THEN v ELSE d.default

\* Version.__getitem__(i) for an index i (from 0): the cooked value.
__getitem__(cls, raw, i) ==
    Cook(get_raw_item(raw, i), _get_segment_definition(cls, raw)[i + 1])

\* Version.validate(): the intersegment validation hook, "none" or the
\* exception it raises.  The base class accepts everything; the override of
\* Mix raises ValueError when y is present and exceeds z (cooked values).
validate(cls, raw) ==
    IF /\ cls = "Mix"
       /\ ~IsNone(__getitem__(cls, raw, 1))
       /\ __getitem__(cls, raw, 1)[2] > __getitem__(cls, raw, 2)[2]
    THEN "ValueError" ELSE "none"

\* The result of a call that raises e.
Raise(e) == [err |-> e, inst |-> <<>>]

\* The processing of kwargs as it would be if a positional value were kept
\* when the segment is also given by name.
RECURSIVE ApplyKwargs_positional_first(_, _, _, _)
ApplyKwargs_positional_first(definitions, args, is_tuple, kwargs) ==
    IF Len(kwargs) = 0 THEN [err |-> "none", args |-> args]
    ELSE LET k == kwargs[1][1]
             v == kwargs[1][2]
             i == SegmentIndex(definitions, k)
         IN IF i < 0 THEN [err |-> "KeyError", args |-> args]
            ELSE IF is_tuple THEN [err |-> "TypeError", args |-> args]
            ELSE ApplyKwargs_positional_first(definitions,
                     IF IsNone(args[i + 1]) THEN [args EXCEPT ![i + 1] = v]
                     ELSE args,
                     is_tuple, Tail(kwargs))

\* kwargs processed into args, in order: [err, args].  Text parsed by the
\* grammar gives a tuple (match.groups()), which cannot be assigned to.
RECURSIVE ApplyKwargs(_, _, _, _)
ApplyKwargs(definitions, args, is_tuple, kwargs) ==
    IF Len(kwargs) = 0 THEN [err |-> "none", args |-> args]
    ELSE LET k == kwargs[1][1]
             v == kwargs[1][2]
             i == SegmentIndex(definitions, k)
         IN IF i < 0 THEN [err |-> "KeyError", args |-> args]
            ELSE IF is_tuple THEN [err |-> "TypeError", args |-> args]
            ELSE ApplyKwargs(definitions, [args EXCEPT ![i + 1] = v],
                             is_tuple, Tail(kwargs))

\* The values of args validated in order by their segment definitions:
\* [err, vals].
RECURSIVE ValidateArgs(_, _, _)
\* The step of ValidateArgs for argument i, r its validation.
ValidateArgsStep(definitions, args, i, r) ==
    IF r.err # "none" THEN [err |-> r.err, vals |-> <<>>]
    ELSE LET rest == ValidateArgs(definitions, args, i + 1)
         IN IF rest.err # "none" THEN rest
            ELSE [err |-> "none", vals |-> <<r.val>> \o rest.vals]

ValidateArgs(definitions, args, i) ==
    IF i > Len(args) THEN [err |-> "none", vals |-> <<>>]
    ELSE ValidateArgsStep(definitions, args, i,
             validate_value(IF Len(definitions) > 0 THEN definitions[i]
                            ELSE DEFAULT_SEGMENT_DEFINITION, args[i]))

\* Whether the constructor takes its arguments as one version string.
FromString(args) == Len(args) = 1 /\ IsStr(args[1])

\* The groups of a grammar match as the argument tuple: [err, args].
GroupArgs(groups) ==
    IF groups = NoMatch THEN [err |-> "ValueError", args |-> <<>>]
    ELSE [err |-> "none", args |-> groups]

\* The first part of Version.__new__ as it would be if values beyond the
\* segments were dropped instead of refused.
ShapeArgs_truncating(cls, args) ==
    LET n == Len(_get_definitions(cls))
    IN IF FromString(args) THEN
           IF n > 0 THEN GroupArgs(re_match(_get_re(cls), args[1][2]))
           ELSE [err |-> "none",
                 args |-> Split(args[1][2], DEFAULT_SEGMENT_SEPARATOR[1])]
       ELSE IF n > 0 THEN
           IF Len(args) > n THEN [err |-> "none", args |-> SubSeq(args, 1, n)]
           ELSE [err |-> "none",
                 args |-> args \o [j \in 1..(n - Len(args)) |-> None]]
       ELSE IF Len(args) = 0 THEN [err |-> "ValueError", args |-> <<>>]
       ELSE [err |-> "none", args |-> args]

\* The first part of Version.__new__: the version string parsed into
\* arguments, or the given arguments checked and padded.  [err, args].
ShapeArgs(cls, args) ==
    LET n == Len(_get_definitions(cls))
    IN IF FromString(args) THEN
           IF n > 0 THEN GroupArgs(re_match(_get_re(cls), args[1][2]))
           ELSE [err |-> "none",
                 args |-> Split(args[1][2], DEFAULT_SEGMENT_SEPARATOR[1])]
       ELSE IF n > 0 THEN
           IF Len(args) > n THEN [err |-> "ValueError", args |-> <<>>]
           ELSE [err |-> "none",
                 args |-> args \o [j \in 1..(n - Len(args)) |-> None]]
       ELSE IF Len(args) = 0 THEN [err |-> "ValueError", args |-> <<>>]
       ELSE [err |-> "none", args |-> args]

\* The last part of Version.__new__ as it would be without the call of the
\* validate() hook.
Instantiate_unhooked(cls, valid) ==
    IF valid.err # "none" THEN Raise(valid.err)
    ELSE [err |-> "none", inst |-> valid.vals]

\* The last part of Version.__new__: the instance made of the validated
\* values, and its validate() hook called.
Instantiate(cls, valid) ==
    IF valid.err # "none" THEN Raise(valid.err)
    ELSE IF validate(cls, valid.vals) # "none"
         THEN Raise(validate(cls, valid.vals))
    ELSE [err |-> "none", inst |-> valid.vals]

\* The middle of Version.__new__: the arguments with kwargs processed are
\* validated in order.
ValidateNamed(cls, named) ==
    IF named.err # "none" THEN Raise(named.err)
    ELSE Instantiate(cls, ValidateArgs(_get_definitions(cls), named.args, 1))

\* Version.__new__ from the shaped arguments on.
NewShaped(cls, shaped, is_tuple, kwargs) ==
    IF shaped.err # "none" THEN Raise(shaped.err)
    ELSE ValidateNamed(cls,
             ApplyKwargs(_get_definitions(cls), shaped.args, is_tuple, kwargs))

\* Version.__new__(cls, *args, **kwargs): [err, inst], inst the raw tuple of
\* the new instance (<<>> when the call raises).
__new__(cls, args, kwargs) ==
    NewShaped(cls, ShapeArgs(cls, args),
              FromString(args) /\ Len(_get_definitions(cls)) > 0, kwargs)

\* Version.__getitem__(slice(lo, hi)): the tuple of cooked values.
GetSlice(cls, raw, lo, hi) ==
    LET d == SubSeq(_get_segment_definition(cls, raw), lo + 1, hi)
        v == SubSeq(raw, lo + 1, hi)
    IN [k \in 1..Len(v) |-> Cook(v[k], d[k])]

\* self[:]
Cooked(cls, raw) == GetSlice(cls, raw, 0, Len(raw))

\* Version.__getitem__(name) and Version.get_raw_item(name): [err, val].
GetByName(cls, raw, name, cooked) ==
    LET i == SegmentIndex(_get_definitions(cls), name)
    IN IF i < 0 THEN [err |-> "KeyError", val |-> None]
       ELSE [err |-> "none",
             val |-> IF cooked THEN __getitem__(cls, raw, i)
                     ELSE get_raw_item(raw, i)]

\* --------------------------------------------------------------- rendering

\* The callback as it would be if it did not look at the later segments.
_render_exclude_defaults_unscoped(cls, raw, index) ==
    /\ _get_segment_definition(cls, raw)[index + 1].optional
    /\ IsNone(get_raw_item(raw, index))

\* Version._render_exclude_defaults_callback(index), scope the whole tuple.
_render_exclude_defaults_callback(cls, raw, index) ==
    IF /\ index \in 0..(Len(raw) - 1)
       /\ \E i \in index..(Len(raw) - 1) : ~IsNone(get_raw_item(raw, i))
    THEN FALSE
    ELSE /\ _get_segment_definition(cls, raw)[index + 1].optional
         /\ IsNone(get_raw_item(raw, index))

\* A callback passed to render is given as the set of indices at which it
\* answers true for this instance.
callback_affirmative(callback, index) == index \in callback

\* The callbacks deciding as they would if an exclude callback overruled the
\* include callbacks.
Include_exclude_wins(cls, raw, exclude_defaults, include_callbacks, exclude_callbacks, i) ==
    /\ \A c \in 1..Len(exclude_callbacks) : ~callback_affirmative(exclude_callbacks[c], i)
    /\ ~(exclude_defaults /\ _render_exclude_defaults_callback(cls, raw, i))

\* Version.render: include after the two loops over the callbacks.
Include(cls, raw, exclude_defaults, include_callbacks, exclude_callbacks, i) ==
    LET forced == \E c \in 1..Len(include_callbacks) :
                      callback_affirmative(include_callbacks[c], i)
        excluded ==
            \/ \E c \in 1..Len(exclude_callbacks) :
                   callback_affirmative(exclude_callbacks[c], i)
            \/ exclude_defaults
               /\ _render_exclude_defaults_callback(cls, raw, i)
    IN forced \/ ~excluded

\* The loop of Version.render from index i on, result the text so far.
RECURSIVE RenderFrom(_, _, _, _, _, _, _)
RenderFrom(cls, raw, exclude_defaults, include_callbacks, exclude_callbacks, i, result) ==
    IF i >= Len(raw) THEN result
    ELSE LET definition == _get_segment_definition(cls, raw)[i + 1]
             value == __getitem__(cls, raw, i)
             include == Include(cls, raw, exclude_defaults, include_callbacks, exclude_callbacks, i)
             next == IF (definition.optional /\ IsNone(value)) \/ ~include
                     THEN result
                     ELSE (IF Len(result) > 0
                           THEN result \o definition.separator ELSE result)
                          \o segment_render(definition, value)
         IN RenderFrom(cls, raw, exclude_defaults, include_callbacks,
                       exclude_callbacks, i + 1, next)

\* Version.render(exclude_defaults, include_callbacks, exclude_callbacks)
render(cls, raw, exclude_defaults, include_callbacks, exclude_callbacks) ==
    RenderFrom(cls, raw, exclude_defaults, include_callbacks,
               exclude_callbacks, 0, <<>>)

\* Version.__str__()
__str__(cls, raw) == render(cls, raw, TRUE, <<>>, <<>>)

\* -------------------------------------------------------------- comparison

\* The code point of a character.
CharCode(c) ==
    IF c = "+" THEN 43 ELSE IF c = "-" THEN 45 ELSE IF c = "." THEN 46
    ELSE IF IsDigit(c) THEN 48 + DigitVal(c)
    ELSE IF c = "a" THEN 97 ELSE IF c = "b" THEN 98 ELSE IF c = "c" THEN 99
    ELSE 120

\* str < str: by code points, a proper prefix first.
RECURSIVE TextLess(_, _)
TextLess(s, t) ==
    IF Len(t) = 0 THEN FALSE
    ELSE IF Len(s) = 0 THEN TRUE
    ELSE IF s[1] # t[1] THEN CharCode(s[1]) < CharCode(t[1])
    ELSE TextLess(Tail(s), Tail(t))

\* The first position at which two sequences differ, 0 if one is a prefix of
\* the other.
FirstDiff(a, b) ==
    LET m == IF Len(a) < Len(b) THEN Len(a) ELSE Len(b)
        hits == {k \in 1..m : a[k] # b[k]}
    IN IF hits = {} THEN 0 ELSE CHOOSE k \in hits : \A h \in hits : k <= h

\* a < b for two Python values: "True", "False" or "TypeError".  Tuples are
\* ordered by their first differing elements, then by length.  None against
\* another value: on Python 3 the comparison raises TypeError; on Python 2
\* None is smaller than everything (and a number smaller than what is not a
\* number; no other unlike values meet at one position of a scheme).
RECURSIVE PyLess(_, _, _)
PyLess(a, b, py2) ==
    LET Bool(x) == IF x THEN "True" ELSE "False"
    IN IF IsInt(a) /\ IsInt(b) THEN Bool(a[2] < b[2])
       ELSE IF IsStr(a) /\ IsStr(b) THEN Bool(TextLess(a[2], b[2]))
       ELSE IF IsTuple(a) /\ IsTuple(b) THEN
           LET k == FirstDiff(a[2], b[2])
           IN IF k = 0 THEN Bool(Len(a[2]) < Len(b[2]))
              ELSE PyLess(a[2][k], b[2][k], py2)
       ELSE IF ~py2 THEN "TypeError"
       ELSE IF IsNone(a) THEN Bool(~IsNone(b))
       ELSE IF IsNone(b) THEN "False"
       ELSE Bool(IsInt(a))

\* __eq__ as it would be if it compared the raw tuples.
__eq__raw(cls, raw, other) == raw = other

\* Version.__eq__(other) for another instance of the same scheme type.
__eq__(cls, raw, other) == Cooked(cls, raw) = Cooked(cls, other)

\* Version.__lt__(other) for another instance of the same scheme type.
__lt__(cls, raw, other, py2) ==
    PyLess(T(Cooked(cls, raw)), T(Cooked(cls, other)), py2)

\* The operators Version does not override are those of tuple, which compare
\* the stored items, the raw values.
\* tuple.__ne__(self, other)
__ne__(raw, other) == raw # other

\* tuple.__gt__(self, other): "True", "False" or "TypeError".
__gt__(raw, other, py2_) == PyLess(T(other), T(raw), py2_)

\* tuple.__le__(self, other): equal tuples without comparing any item,
\* otherwise by the first differing items, then by length.
__le__(raw, other, py2_) ==
    IF raw = other THEN "True" ELSE PyLess(T(raw), T(other), py2_)

\* tuple.__ge__(self, other)
__ge__(raw, other, py2_) ==
    IF raw = other THEN "True" ELSE PyLess(T(other), T(raw), py2_)

\* ------------------------------------------- comparison with other values

\* A value of a type a caller declares: an ordered pair of integers, made
\* from a text "a.b", compared by its two numbers.
Pair(a, b) == <<"P", <<I(a), I(b)>>>>

IsPair(v) == v[1] = "P"

\* type(other)
TypeOf(v) ==
    IF IsNone(v) THEN "NoneType" ELSE IF IsInt(v) THEN "int"
    ELSE IF IsStr(v) THEN "str" ELSE IF IsTuple(v) THEN "tuple" ELSE "Pair"

\* Pair(text) from the parts of the text between dots: [err, val].
PairOf(parts) ==
    IF Len(parts) # 2 THEN [err |-> "ValueError", val |-> None]
    ELSE IF IntOf(parts[1]).err # "none" \/ IntOf(parts[2]).err # "none"
         THEN [err |-> "ValueError", val |-> None]
    ELSE [err |-> "none", val |-> <<"P", <<IntOf(parts[1]).val, IntOf(parts[2]).val>>>>]

\* type_(x), x the instance (its raw tuple, T(raw)) or a text; text is
\* str() of the instance.  [err, val].
TypeCall(type_, x, text) ==
    IF type_ = "NoneType" THEN [err |-> "TypeError", val |-> None]
    ELSE IF type_ = "int"
         THEN IF IsStr(x) THEN IntOf(x) ELSE [err |-> "TypeError", val |-> None]
    ELSE IF type_ = "str"
         THEN [err |-> "none", val |-> IF IsStr(x) THEN x ELSE S(text)]
    ELSE IF type_ = "tuple"
         THEN [err |-> "none",
               val |-> IF IsTuple(x) THEN x
                       ELSE T([k \in 1..Len(x[2]) |-> S(<<x[2][k]>>)])]
    ELSE IF IsStr(x) THEN PairOf(Split(x[2], "."))
    ELSE [err |-> "TypeError", val |-> None]

\* The second try of _coerce_to_type, first the result of the first try.
CoerceSecond(first, type_, text) ==
    IF first.err = "none" THEN first ELSE TypeCall(type_, S(text), text)

\* _coerce_to_type as it would be if it tried the rendered string first.
_coerce_to_type_string_first(raw, type_, text) ==
    IF TypeCall(type_, S(text), text).err = "none"
    THEN TypeCall(type_, S(text), text)
    ELSE TypeCall(type_, T(raw), text)

\* Version._coerce_to_type(type_), text the instance's str(): [err, val], err
\* other than "none" where the method returns None.
_coerce_to_type(raw, type_, text) ==
    CoerceSecond(TypeCall(type_, T(raw), text), type_, text)

\* as_other < other for two values of one type.
CoercedLess(a, b, py2_) ==
    IF IsPair(a) THEN PyLess(T(a[2]), T(b[2]), py2_) ELSE PyLess(a, b, py2_)

\* The end of Version.__eq__ for an other that is no Version, as_other the
\* result of the coercion.
EqCoerced(as_other, other) ==
    IF as_other.err # "none" THEN "False"
    ELSE IF as_other.val = other THEN "True" ELSE "False"

\* The end of Version.__lt__ for an other that is no Version.
LtCoerced(as_other, other, py2_) ==
    IF as_other.err # "none" THEN "NotImplemented"
    ELSE CoercedLess(as_other.val, other, py2_)

\* Version.__eq__(other), other not a Version.
__eq__other(cls, raw, other) ==
    EqCoerced(_coerce_to_type(raw, TypeOf(other), __str__(cls, raw)), other)

\* Version.__lt__(other), other not a Version.
__lt__other(cls, raw, other, py2_) ==
    LtCoerced(_coerce_to_type(raw, TypeOf(other), __str__(cls, raw)), other, py2_)

\* ------------------------------------------------------------------ replace

\* k.startswith('_') and k[1:].isdigit()
IsIndexKey(k) == Len(k) > 1 /\ k[1] = "_" /\ AllDigits(Tail(k))

\* The underscore-index arguments of kwargs assigned into values, in order:
\* [err, values].
RECURSIVE ApplyIndexKeys(_, _)
ApplyIndexKeys(values, kwargs) ==
    IF Len(kwargs) = 0 THEN [err |-> "none", values |-> values]
    ELSE LET k == kwargs[1][1]
             i == DigitsToNat(Tail(k))
         IN IF ~IsIndexKey(k) THEN ApplyIndexKeys(values, Tail(kwargs))
            ELSE IF i >= Len(values)
                 THEN [err |-> "IndexError", values |-> values]
            ELSE ApplyIndexKeys([values EXCEPT ![i + 1] = kwargs[1][2]],
                                Tail(kwargs))

\* Version.replace(**kwargs): [err, inst].
ReplaceWith(cls, indexed, names) ==
    IF indexed.err # "none" THEN Raise(indexed.err)
    ELSE __new__(cls, indexed.values, names)

replace(cls, raw, kwargs) ==
    ReplaceWith(cls, ApplyIndexKeys(raw, kwargs),
                SelectSeq(kwargs, LAMBDA kv : ~IsIndexKey(kv[1])))

\* ------------------------------------------------------------------- state

VARIABLES
    py2,    \* the interpreter is Python 2 (future.utils.PY2)
    cls,    \* the scheme type in use
    self,   \* the raw tuple of the instance the caller holds, or NoInstance
    call,   \* the call in progress or just returned, with its outcome
    lock,   \* Version.__class_cache_lock: the owning thread and its depth
    cache,  \* Version.__class_cache: for each scheme type its two entries
    declared, \* for each scheme type, which SEGMENT_DEFINITIONS it now has
    th,     \* each thread: where it is in _get_definitions or _get_re
    stores  \* how many times each entry of the cache has been assigned

cachevars == <<lock, cache, declared, th, stores>>

seqvars == <<py2, cls, self, call>>

vars == <<py2, cls, self, call, lock, cache, declared, th, stores>>

NoInstance == <<>>

\* Threads that construct instances at the same time, the scheme types they
\* construct, and how often a type's SEGMENT_DEFINITIONS gets reassigned.
NThreads == 2

MaxReassign == 1

Threads == 1..NThreads

NoThread == 0

CacheTypes == {"Scenario", "PythonVersion"}

\* A thread that is in neither class method.
Outside ==
    [pc |-> "outside", op |-> "none", cls |-> "Scenario", inner |-> None, definitions |-> None, result |-> None]

Idle ==
    [op |-> "idle", args |-> <<>>, kwargs |-> <<>>, err |-> "none",
     ret |-> NoInstance, out |-> None]

\* ------------------------------------------------------------------ inputs

\* Largest number of values a caller passes under the unbounded scheme.
MaxArgs == 3

Bogus == <<"b", "o", "g", "u", "s">>

IntArgs == {None} \cup {I(n) : n \in (0 - 1)..MaxInt}

\* What a caller passes for the suffix segment of PythonVersion: valid
\* pairs, and the two pairs the serial pattern rejects.
SuffixArgs ==
    {None, T(<<S(<<"+">>), None>>), T(<<S(<<"c">>), I(0)>>),
     T(<<S(<<"c">>), I(1)>>), T(<<S(<<"+">>), I(1)>>),
     T(<<S(<<"c">>), None>>)}

\* The values a caller passes at position i (from 1) of a scheme.
ArgsAt(cls_, i) ==
    LET definitions == _get_definitions(cls_)
    IN IF i > Len(definitions) /\ Len(definitions) > 0 THEN {I(0)}
       ELSE IF Len(definitions) > 0 /\ Len(definitions[i].fields) > 1
            THEN SuffixArgs
       ELSE IntArgs

\* The argument lists of length k.
RECURSIVE ArgListsOfLen(_, _)
ArgListsOfLen(cls_, k) ==
    IF k = 0 THEN {<<>>}
    ELSE {Append(a, v) : a \in ArgListsOfLen(cls_, k - 1), v \in ArgsAt(cls_, k)}

\* The positional argument lists: up to one more than the segments, or up
\* to MaxArgs values under the unbounded scheme.
ArgLists(cls_) ==
    LET n == Len(_get_definitions(cls_))
        top == IF n > 0 THEN n + 1 ELSE MaxArgs
    IN UNION {ArgListsOfLen(cls_, k) : k \in 0..top}

\* The names of the named segments of a scheme.
SegmentNames(cls_) ==
    {_get_definitions(cls_)[i].name : i \in 1..Len(_get_definitions(cls_))}
        \ {NoName}

\* The keyword arguments of a constructor call: none, one by a segment name,
\* or one by a name no segment has.
KwargLists(cls_) ==
    {<<>>} \cup {<< <<k, v>> >> : k \in SegmentNames(cls_), v \in IntArgs}
           \cup {<< <<Bogus, I(0)>> >>}

Alphabet == {"0", "1", ".", "c", "+"}

\* What follows MAJOR.MINOR.MICRO in a text given to PythonVersion: nothing,
\* a release level alone, or a release level and a serial number.
SuffixTexts ==
    {<<>>} \cup {<<l>> : l \in {"+", "a", "b", "c"}}
           \cup {<<l>> \o NatToText(n) : l \in {"+", "a", "b", "c"}, n \in 0..MaxInt}

\* Texts of three numbers and a suffix.
PythonTexts ==
    {NatToText(MaxInt) \o <<".">> \o NatToText(b) \o <<".">> \o NatToText(c) \o x :
        b \in 0..MaxInt, c \in 0..MaxInt, x \in SuffixTexts}

\* The version strings a caller passes: every text up to MaxStrLen, and the
\* texts of three numbers and a suffix.
Strings == UNION {[1..k -> Alphabet] : k \in 0..MaxStrLen} \cup PythonTexts

\* The instances of a scheme a caller can hold from values: what the
\* constructor returns.
Instances(cls_) ==
    {__new__(cls_, a, <<>>).inst :
        a \in {b \in ArgLists(cls_) : __new__(cls_, b, <<>>).err = "none"}}

\* The key _i of replace.
IndexKey(i) == <<"_">> \o NatToText(i)

ReplaceVals == {None, I(MaxInt), I(0 - 1)}

\* The keyword arguments of a replace call: none, one by index (one index past
\* the end included), one by name, or one of each.
ReplaceKwargs(cls_, raw) ==
    LET byIndex == {<<IndexKey(i), v>> : i \in 0..Len(raw), v \in ReplaceVals}
        byName == {<<k, v>> : k \in SegmentNames(cls_) \cup {Bogus},
                              v \in ReplaceVals}
    IN {<<>>} \cup {<<kv>> : kv \in byIndex \cup byName}
              \cup {<<a, b>> : a \in byIndex, b \in byName}

\* ----------------------------------------------------------------- actions

\* The answer of a comparison as the call's output.
Answer(x) == S(<<x>>)

\* The class cache and its lock as the class statement leaves them, with no
\* thread inside either class method.
CacheInit ==
    /\ lock = [owner |-> NoThread, count |-> 0]
    /\ cache = [c \in CacheTypes |-> [segment_definitions |-> None, re |-> None]]
    /\ declared = [c \in CacheTypes |-> 0]
    /\ th = [t \in Threads |-> Outside]
    /\ stores = [c \in CacheTypes |-> [segment_definitions |-> 0, re |-> 0]]

Init ==
    /\ py2 \in BOOLEAN
    /\ cls \in Schemes
    /\ self = NoInstance
    /\ call = Idle
    /\ CacheInit

\* v = cls(*args, **kwargs), the call itself.
New ==
    /\ call.op = "idle" /\ self = NoInstance
    /\ \E args \in ArgLists(cls), kwargs \in KwargLists(cls) :
          LET r == __new__(cls, args, kwargs)
          IN call' = [Idle EXCEPT !.op = "new", !.args = args,
                        !.kwargs = kwargs, !.err = r.err, !.ret = r.inst]
    /\ UNCHANGED <<py2, cls, self, cachevars>>

\* v = cls(string)
NewFromString ==
    /\ call.op = "idle" /\ self = NoInstance
    /\ \E s \in Strings :
          LET r == __new__(cls, <<S(s)>>, <<>>)
          IN call' = [Idle EXCEPT !.op = "new", !.args = <<S(s)>>,
                        !.err = r.err, !.ret = r.inst]
    /\ UNCHANGED <<py2, cls, self, cachevars>>

\* The caller keeps the instance a call returned.
Bind ==
    /\ call.op \in {"new", "replace", "reparse"} /\ call.err = "none"
    /\ self' = call.ret
    /\ call' = Idle
    /\ UNCHANGED <<py2, cls, cachevars>>

\* The caller drops the result of a call, or handles its exception.
Return ==
    /\ call.op # "idle"
    /\ call' = Idle
    /\ UNCHANGED <<py2, cls, self, cachevars>>

\* replace as it would be if it changed the instance in place.
Replace_in_place ==
    /\ call.op = "idle" /\ self # NoInstance
    /\ \E kwargs \in ReplaceKwargs(cls, self) :
          LET r == replace(cls, self, kwargs)
          IN /\ call' = [Idle EXCEPT !.op = "replace", !.kwargs = kwargs,
                           !.err = r.err, !.ret = r.inst]
             /\ self' = IF r.err = "none" THEN r.inst ELSE self
    /\ UNCHANGED <<py2, cls, cachevars>>

\* self.replace(**kwargs)
Replace ==
    /\ call.op = "idle" /\ self # NoInstance
    /\ \E kwargs \in ReplaceKwargs(cls, self) :
          LET r == replace(cls, self, kwargs)
          IN call' = [Idle EXCEPT !.op = "replace", !.kwargs = kwargs,
                        !.err = r.err, !.ret = r.inst]
    /\ UNCHANGED <<py2, cls, self, cachevars>>

\* str(self)
Str ==
    /\ call.op = "idle" /\ self # NoInstance
    /\ call' = [Idle EXCEPT !.op = "str", !.out = S(__str__(cls, self))]
    /\ UNCHANGED <<py2, cls, self, cachevars>>

\* type(self)(text) for the text str(self) just returned.
Reparse ==
    /\ call.op = "str"
    /\ LET r == __new__(cls, <<call.out>>, <<>>)
       IN call' = [Idle EXCEPT !.op = "reparse", !.args = <<call.out>>,
                     !.out = call.out, !.err = r.err, !.ret = r.inst]
    /\ UNCHANGED <<py2, cls, self, cachevars>>

\* self == other and self < other, other an instance of the same scheme.
Compare ==
    /\ call.op = "idle" /\ self # NoInstance
    /\ \E other \in Instances(cls) :
          \/ call' = [Idle EXCEPT !.op = "eq", !.args = <<T(other)>>,
                !.out = Answer(IF __eq__(cls, self, other)
                               THEN "True" ELSE "False")]
          \/ call' = [Idle EXCEPT !.op = "lt", !.args = <<T(other)>>,
                !.out = Answer(__lt__(cls, self, other, py2))]
    /\ UNCHANGED <<py2, cls, self, cachevars>>

\* The value lists that differ from raw at no more than one position: raw
\* itself, and raw with one value changed, set or unset, added or dropped.
Variants(cls_, raw) ==
    {raw} \cup UNION {{[raw EXCEPT ![i] = v] : v \in ArgsAt(cls_, i)} : i \in 1..Len(raw)}
          \cup {Append(raw, v) : v \in ArgsAt(cls_, Len(raw) + 1)}
          \cup {SubSeq(raw, 1, Len(raw) - 1)}

\* The instances of the scheme among them.
Nearby(cls_, raw) ==
    {o \in Variants(cls_, raw) : __new__(cls_, o, <<>>) = [err |-> "none", inst |-> o]}

\* self != other, self > other, self <= other and self >= other, other a
\* nearby instance of the same scheme.
CompareDerived ==
    /\ call.op = "idle" /\ self # NoInstance
    /\ \E other \in Nearby(cls, self) :
          \/ call' = [Idle EXCEPT !.op = "ne", !.args = <<T(other)>>,
                !.out = Answer(IF __ne__(self, other) THEN "True" ELSE "False")]
          \/ call' = [Idle EXCEPT !.op = "gt", !.args = <<T(other)>>,
                !.out = Answer(__gt__(self, other, py2))]
          \/ call' = [Idle EXCEPT !.op = "le", !.args = <<T(other)>>,
                !.out = Answer(__le__(self, other, py2))]
          \/ call' = [Idle EXCEPT !.op = "ge", !.args = <<T(other)>>,
                !.out = Answer(__ge__(self, other, py2))]
    /\ UNCHANGED <<py2, cls, self, cachevars>>

\* The values of other types a caller compares an instance with: the raw and
\* the cooked tuple, the rendered text and another text, numbers, None, and
\* pairs.
Others(cls_, raw) ==
    {T(raw), T(Cooked(cls_, raw)), S(__str__(cls_, raw)), S(<<"1", ".", "1">>),
     I(0), I(1), None, Pair(0, 1), Pair(1, 1)}

\* self == other and self.__lt__(other), other no Version.
CompareOther ==
    /\ call.op = "idle" /\ self # NoInstance
    /\ \E other \in Others(cls, self) :
          \/ call' = [Idle EXCEPT !.op = "eq_other", !.args = <<other>>,
                !.out = Answer(__eq__other(cls, self, other))]
          \/ call' = [Idle EXCEPT !.op = "lt_other", !.args = <<other>>,
                !.out = Answer(__lt__other(cls, self, other, py2))]
    /\ UNCHANGED <<py2, cls, self, cachevars>>

\* The items a caller asks for: an index, a slice, or a name.
Items(cls_, raw) ==
    {I(i) : i \in 0..(Len(raw) - 1)}
    \cup {T(<<I(lo), I(hi)>>) : lo \in 0..Len(raw), hi \in 0..Len(raw)}
    \cup {S(k) : k \in SegmentNames(cls_) \cup {Bogus}}

\* self[item] (cooked) or self.get_raw_item(item): [err, val]; a slice gives
\* the tuple of the values from lo up to hi.
Access(cls_, raw, item, cooked) ==
    IF IsInt(item) THEN
        [err |-> "none",
         val |-> IF cooked THEN __getitem__(cls_, raw, item[2])
                 ELSE get_raw_item(raw, item[2])]
    ELSE IF IsStr(item) THEN GetByName(cls_, raw, item[2], cooked)
    ELSE [err |-> "none",
          val |-> T(IF cooked
                    THEN GetSlice(cls_, raw, item[2][1][2], item[2][2][2])
                    ELSE SubSeq(raw, item[2][1][2] + 1, item[2][2][2]))]

\* self[item] and self.get_raw_item(item)
GetItem ==
    /\ call.op = "idle" /\ self # NoInstance
    /\ \E item \in Items(cls, self), cooked \in BOOLEAN :
          LET r == Access(cls, self, item, cooked)
          IN call' = [Idle EXCEPT
                !.op = IF cooked THEN "getitem" ELSE "get_raw_item",
                !.args = <<item>>, !.err = r.err, !.out = r.val]
    /\ UNCHANGED <<py2, cls, self, cachevars>>

\* The callbacks a caller passes to render, each the set of indices at which
\* it answers true: none, one that answers true at one index followed by one
\* that never does, or one that always answers true.
CallbackLists(raw) ==
    {<<>>, <<0..(Len(raw) - 1)>>} \cup {<<{i}, {}>> : i \in 0..(Len(raw) - 1)}

\* self.render(exclude_defaults, include_callbacks, exclude_callbacks)
Render ==
    /\ call.op = "idle" /\ self # NoInstance
    /\ \E exclude_defaults \in BOOLEAN, include_callbacks \in CallbackLists(self), exclude_callbacks \in CallbackLists(self) :
          call' = [Idle EXCEPT !.op = "render",
                     !.args = <<exclude_defaults, include_callbacks, exclude_callbacks>>,
                     !.out = S(render(cls, self, exclude_defaults, include_callbacks, exclude_callbacks))]
    /\ UNCHANGED <<py2, cls, self, cachevars>>

Next ==
    \/ New
    \/ NewFromString
    \/ Bind
    \/ Return
    \/ Replace
    \/ Str
    \/ Reparse
    \/ Compare
    \/ CompareDerived
    \/ CompareOther
    \/ GetItem
    \/ Render

Spec == Init /\ [][Next]_vars

\* ------------------------------------------- the class cache under threads

\* What tuple(cls.SEGMENT_DEFINITIONS) gives for the declaration a type now
\* has, and the grammar compiled from a tuple of definitions.
TupleOfDeclared(c) == I(declared[c])

Compiled(definitions) == <<"re", definitions>>

Move(t, pc_) == [th EXCEPT ![t].pc = pc_]

\* cls._get_definitions() called from __new__.
Call_get_definitions(t) ==
    /\ th[t].pc = "outside"
    /\ \E c \in CacheTypes : th' = [th EXCEPT ![t] = [Outside EXCEPT !.pc = "d_lock", !.op = "segment_definitions", !.cls = c]]
    /\ UNCHANGED <<seqvars, lock, cache, declared, stores>>

\* cls._get_re() called from __new__.
Call_get_re(t) ==
    /\ th[t].pc = "outside"
    /\ \E c \in CacheTypes : th' = [th EXCEPT ![t] = [Outside EXCEPT !.pc = "r_lock", !.op = "re", !.cls = c]]
    /\ UNCHANGED <<seqvars, lock, cache, declared, stores>>

AfterAcquire(pc_) == IF pc_ = "d_lock" THEN "d_get" ELSE IF pc_ = "r_lock" THEN "r_get" ELSE "rd_get"

\* A lock that any thread enters at once, whoever holds it.
Acquire_unguarded(t) ==
    /\ th[t].pc \in {"d_lock", "r_lock", "rd_lock"}
    /\ lock' = [owner |-> t, count |-> lock.count + 1]
    /\ th' = Move(t, AfterAcquire(th[t].pc))
    /\ UNCHANGED <<seqvars, cache, declared, stores>>

\* with cls.__class_cache_lock: entering the RLock, which the thread that
\* holds it may enter again; "rd_lock" is the entry made by the call of
\* _get_definitions inside _get_re.
Acquire(t) ==
    /\ th[t].pc \in {"d_lock", "r_lock", "rd_lock"}
    /\ lock.owner \in {NoThread, t}
    /\ lock' = [owner |-> t, count |-> lock.count + 1]
    /\ th' = Move(t, AfterAcquire(th[t].pc))
    /\ UNCHANGED <<seqvars, cache, declared, stores>>

\* result = cache.get('segment_definitions') and the test of it.
Get_segment_definitions(t) ==
    /\ th[t].pc \in {"d_get", "rd_get"}
    /\ LET found == cache[th[t].cls].segment_definitions
           nested == th[t].pc = "rd_get"
       IN th' = [th EXCEPT ![t].inner = found,
                           ![t].pc = IF IsNone(found) THEN (IF nested THEN "rd_store" ELSE "d_store")
                                     ELSE (IF nested THEN "rd_unlock" ELSE "d_unlock")]
    /\ UNCHANGED <<seqvars, lock, cache, declared, stores>>

\* result = cache.get('re') and the test of it.
Get_re(t) ==
    /\ th[t].pc = "r_get"
    /\ LET found == cache[th[t].cls].re
       IN th' = [th EXCEPT ![t].result = found,
                           ![t].pc = IF IsNone(found) THEN "rd_lock" ELSE "r_unlock"]
    /\ UNCHANGED <<seqvars, lock, cache, declared, stores>>

\* result = tuple(cls.SEGMENT_DEFINITIONS); cache['segment_definitions'] = result
StoreDefinitions(t) ==
    /\ th[t].pc \in {"d_store", "rd_store"}
    /\ LET c == th[t].cls
           result == TupleOfDeclared(c)
       IN /\ cache' = [cache EXCEPT ![c].segment_definitions = result]
          /\ stores' = [stores EXCEPT ![c].segment_definitions = @ + 1]
          /\ th' = [th EXCEPT ![t].inner = result,
                              ![t].pc = IF th[t].pc = "d_store" THEN "d_unlock" ELSE "rd_unlock"]
    /\ UNCHANGED <<seqvars, lock, declared>>

\* cache['re'] = result = _re.compile(...) of the definitions just fetched
StoreRe(t) ==
    /\ th[t].pc = "r_store"
    /\ LET c == th[t].cls
           result == Compiled(th[t].definitions)
       IN /\ cache' = [cache EXCEPT ![c].re = result]
          /\ stores' = [stores EXCEPT ![c].re = @ + 1]
          /\ th' = [th EXCEPT ![t].result = result, ![t].pc = "r_unlock"]
    /\ UNCHANGED <<seqvars, lock, declared>>

\* Leaving a with block, and the return that follows it: the inner call
\* hands its tuple to _get_re, the outer ones hand their result to __new__.
Release(t) ==
    /\ th[t].pc \in {"d_unlock", "rd_unlock", "r_unlock"}
    /\ lock' = [owner |-> IF lock.count = 1 THEN NoThread ELSE lock.owner, count |-> lock.count - 1]
    /\ th' = [th EXCEPT ![t].pc = IF th[t].pc = "rd_unlock" THEN "r_store" ELSE "returned",
                        ![t].definitions = IF th[t].pc = "rd_unlock" THEN th[t].inner ELSE @,
                        ![t].result = IF th[t].pc = "d_unlock" THEN th[t].inner ELSE @]
    /\ UNCHANGED <<seqvars, cache, declared, stores>>

\* __new__ goes on with what it was handed.
Continue(t) ==
    /\ th[t].pc = "returned"
    /\ th' = [th EXCEPT ![t] = Outside]
    /\ UNCHANGED <<seqvars, lock, cache, declared, stores>>

\* cls.SEGMENT_DEFINITIONS = ..., by whoever, at any time.
Reassign ==
    /\ \E c \in CacheTypes :
          /\ declared[c] < MaxReassign
          /\ declared' = [declared EXCEPT ![c] = @ + 1]
    /\ UNCHANGED <<seqvars, lock, cache, th, stores>>

CacheNext ==
    \/ \E t \in Threads : Call_get_definitions(t)
    \/ \E t \in Threads : Call_get_re(t)
    \/ \E t \in Threads : Acquire(t)
    \/ \E t \in Threads : Get_segment_definitions(t)
    \/ \E t \in Threads : Get_re(t)
    \/ \E t \in Threads : StoreDefinitions(t)
    \/ \E t \in Threads : StoreRe(t)
    \/ \E t \in Threads : Release(t)
    \/ \E t \in Threads : Continue(t)
    \/ Reassign

CacheSpecInit == py2 = FALSE /\ cls = "Scenario" /\ self = NoInstance /\ call = Idle /\ CacheInit

CacheSpec == CacheSpecInit /\ [][CacheNext]_vars

\* Where a thread reads or assigns an entry of the cache.
AccessPoints == {"d_get", "rd_get", "r_get", "d_store", "rd_store", "r_store"}

Entry(c, key) == IF key = "re" THEN cache[c].re ELSE cache[c].segment_definitions

CacheDiscipline ==
    /\ \A c \in CacheTypes : stores[c].segment_definitions <= 1 /\ stores[c].re <= 1
    /\ \A t \in Threads : th[t].pc \in AccessPoints => lock.owner = t /\ lock.count >= 1
    /\ \A t \in Threads : th[t].pc = "rd_lock" => lock.owner = t /\ ENABLED Acquire(t)
    /\ \A t \in Threads : th[t].pc = "returned" => ~IsNone(th[t].result) /\ th[t].result = Entry(th[t].cls, th[t].op)
    /\ \A t, u \in Threads : (th[t].pc = "returned" /\ th[u].pc = "returned" /\ th[t].cls = th[u].cls /\ th[t].op = th[u].op) => th[t].result = th[u].result

StoredEntriesKept ==
    \A c \in CacheTypes :
        /\ ~IsNone(cache[c].segment_definitions) => cache'[c].segment_definitions = cache[c].segment_definitions
        /\ ~IsNone(cache[c].re) => cache'[c].re = cache[c].re

\* C13: with several threads in _get_definitions and _get_re for the same or
\* different scheme types, each type's segment list and grammar are assigned
\* at most once, every read and assignment of an entry is made by the thread
\* that holds the one cache lock, the entry of the lock made inside _get_re
\* by its call of _get_definitions is never blocked, every thread is handed
\* the entry that is in the cache, and an entry once stored stays what it is
\* through every step, a reassignment of SEGMENT_DEFINITIONS included.
WriteOnceCache == []CacheDiscipline /\ [][StoredEntriesKept]_vars

\* Two threads were handed the grammar and the segment list of one type, both
\* made from the declaration the type had before it was reassigned.
WriteOnceCacheWitness ==
    \E c \in CacheTypes :
        /\ declared[c] = 1
        /\ cache[c].segment_definitions = I(0)
        /\ cache[c].re = Compiled(I(0))
        /\ th[1].pc = "returned" /\ th[1].cls = c /\ th[1].op = "re"
        /\ th[2].pc = "returned" /\ th[2].cls = c /\ th[2].op = "segment_definitions"
        /\ stores[c].re = 1

\* ------------------------------------------------- what the claims speak of

\* The definition of segment i (from 1) as the scheme declares it.
DeclaredDefinition(cls_, i) ==
    IF Len(SEGMENT_DEFINITIONS(cls_)) = 0 THEN DEFAULT_SEGMENT_DEFINITION
    ELSE SEGMENT_DEFINITIONS(cls_)[i]

Levels == {<<"+">>, <<"a">>, <<"b">>, <<"c">>}

\* v is a value of the kinds of the segment's fields that their patterns
\* accept: a natural number, or for the two-field suffix of PythonVersion a
\* release level with a serial number (none after "+").
Accepted(d, v) ==
    IF Len(d.fields) = 1 THEN IsInt(v) /\ v[2] >= 0
    ELSE /\ IsTuple(v) /\ Len(v[2]) = 2
         /\ IsStr(v[2][1]) /\ v[2][1][2] \in Levels
         /\ IF v[2][1][2] = <<"+">> THEN IsNone(v[2][2])
            ELSE IsInt(v[2][2]) /\ v[2][2][2] >= 0

MayBeAbsent(d) == d.optional \/ ~IsNone(d.default)

\* Every value of the tuple is absent where that is allowed or accepted.
SegmentsValid(cls_, raw) ==
    \A i \in 1..Len(raw) :
        IF IsNone(raw[i]) THEN MayBeAbsent(DeclaredDefinition(cls_, i))
        ELSE Accepted(DeclaredDefinition(cls_, i), raw[i])

FullyValid(cls_, raw) ==
    /\ Len(raw) > 0
    /\ Len(SEGMENT_DEFINITIONS(cls_)) \in {0, Len(raw)}
    /\ SegmentsValid(cls_, raw)
    /\ validate(cls_, raw) = "none"

Last(set) == CHOOSE k \in set : \A j \in set : j <= k

\* The value a constructor call gives segment i (from 1): the last keyword
\* argument by the segment's name, else the positional value, else none.
GivenValue(cls_, args, kwargs, i) ==
    LET named == {k \in 1..Len(kwargs) :
                     SegmentIndex(SEGMENT_DEFINITIONS(cls_), kwargs[k][1]) = i - 1}
    IN IF named # {} THEN kwargs[Last(named)][2]
       ELSE IF i <= Len(args) THEN args[i] ELSE None

\* The tuple of values a constructor call of the right shape gives.
GivenTuple(cls_, args, kwargs) ==
    LET n == Len(SEGMENT_DEFINITIONS(cls_))
    IN [i \in 1..(IF n > 0 THEN n ELSE Len(args)) |->
           GivenValue(cls_, args, kwargs, i)]

\* A constructor call from values whose shape and names are in order.
WellShaped(cls_, args, kwargs) ==
    LET n == Len(SEGMENT_DEFINITIONS(cls_))
    IN /\ ~FromString(args)
       /\ IF n > 0 THEN Len(args) <= n ELSE Len(args) > 0
       /\ \A k \in 1..Len(kwargs) : kwargs[k][1] \in SegmentNames(cls_)

\* Every key of a replace call names a segment of the instance, by _N or by
\* name.
KeysKnown(cls_, raw, kwargs) ==
    \A k \in 1..Len(kwargs) :
        kwargs[k][1] \in {IndexKey(i) : i \in 0..(Len(raw) - 1)}
                           \cup SegmentNames(cls_)

\* The raw tuple with the entries a replace call selects overridden, a
\* value by name before a value by _N.
Overridden(cls_, raw, kwargs) ==
    [i \in 1..Len(raw) |->
        LET byIndex == {k \in 1..Len(kwargs) : kwargs[k][1] = IndexKey(i - 1)}
            given == GivenValue(cls_, <<>>, kwargs, i)
        IN IF \E k \in 1..Len(kwargs) :
                  /\ kwargs[k][1] \in SegmentNames(cls_)
                  /\ SegmentIndex(SEGMENT_DEFINITIONS(cls_), kwargs[k][1]) = i - 1
           THEN given
           ELSE IF byIndex # {} THEN kwargs[Last(byIndex)][2]
           ELSE raw[i]]

Constructing == {"new", "replace", "reparse"}

\* ------------------------------------------------------------------ claims

\* C6: all-or-nothing construction.  Whatever constructor and replace calls
\* were made, the instance the caller holds and the instance a call returned
\* are fully valid: each raw value is absent only where the segment is
\* optional or has a default, and is otherwise a value its field patterns
\* accept, of the field kinds; and the validate hook accepts the tuple.  A
\* call that raises returns no instance, and a call whose values fail a segment's
\* validation or the hook raises.
AllOrNothingConstruction ==
    /\ self # NoInstance => FullyValid(cls, self)
    /\ call.op \in Constructing =>
          IF call.err = "none" THEN FullyValid(cls, call.ret)
          ELSE call.ret = NoInstance
    /\ ( /\ call.op = "new"
         /\ WellShaped(cls, call.args, call.kwargs)
         /\ ~ ( /\ SegmentsValid(cls, GivenTuple(cls, call.args, call.kwargs))
                /\ validate(cls, GivenTuple(cls, call.args, call.kwargs)) = "none" ) )
       => call.err # "none" /\ call.ret = NoInstance
    /\ ( /\ call.op = "replace"
         /\ KeysKnown(cls, self, call.kwargs)
         /\ ~ ( /\ SegmentsValid(cls, Overridden(cls, self, call.kwargs))
                /\ validate(cls, Overridden(cls, self, call.kwargs)) = "none" ) )
       => call.err # "none" /\ call.ret = NoInstance

\* A constructor call whose values each pass their segment's validation and
\* whose tuple the validate hook rejects: it raised and returned nothing.
AllOrNothingWitness ==
    /\ call.op = "new"
    /\ WellShaped(cls, call.args, call.kwargs)
    /\ SegmentsValid(cls, GivenTuple(cls, call.args, call.kwargs))
    /\ validate(cls, GivenTuple(cls, call.args, call.kwargs)) # "none"
    /\ call.err = "ValueError"
    /\ call.ret = NoInstance

\* C7: shape and name errors.  A constructor call from values raises and
\* returns no instance when a bounded scheme is given more positional values
\* than it has segments, when the unbounded default scheme is given no value,
\* or when a keyword argument names no declared segment; a bounded scheme
\* given fewer positional values than segments behaves as if the missing
\* trailing positions were given as absent.
ShapeAndNameErrors ==
    (call.op = "new" /\ ~FromString(call.args)) =>
        LET n == Len(SEGMENT_DEFINITIONS(cls))
            fails == call.err # "none" /\ call.ret = NoInstance
        IN /\ (n > 0 /\ Len(call.args) > n) => fails
           /\ (n = 0 /\ Len(call.args) = 0) => fails
           /\ (\E k \in 1..Len(call.kwargs) :
                  call.kwargs[k][1] \notin SegmentNames(cls)) => fails
           /\ (n > 0 /\ Len(call.args) < n) =>
                  [err |-> call.err, inst |-> call.ret]
                      = __new__(cls,
                                call.args \o [j \in 1..(n - Len(call.args)) |-> None],
                                call.kwargs)

\* A bounded scheme was given one value more than it has segments, every
\* value acceptable, and the call raised.
ShapeAndNameWitness ==
    /\ call.op = "new" /\ ~FromString(call.args)
    /\ Len(SEGMENT_DEFINITIONS(cls)) > 0
    /\ Len(call.args) = Len(SEGMENT_DEFINITIONS(cls)) + 1
    /\ \A i \in 1..Len(call.args) : IsInt(call.args[i]) /\ call.args[i][2] >= 0
    /\ call.kwargs = <<>>
    /\ call.err = "ValueError"
    /\ call.ret = NoInstance

\* C8: replace leaves the original untouched.  A replace call returns what
\* the constructor returns for the raw tuple with the selected entries
\* overridden (an instance, or the failure), fails when a key names no
\* segment, and in every case leaves the raw and cooked tuples of the
\* instance it was called on as they were.
ReplaceLeavesOriginal ==
    [][call'.op = "replace" =>
          /\ self' = self
          /\ Cooked(cls', self') = Cooked(cls, self)
          /\ IF KeysKnown(cls, self, call'.kwargs)
             THEN [err |-> call'.err, inst |-> call'.ret]
                      = __new__(cls, Overridden(cls, self, call'.kwargs), <<>>)
             ELSE call'.err # "none" /\ call'.ret = NoInstance]_vars

\* A replace call returned an instance that differs from the one it was
\* called on, which the caller still holds.
ReplaceWitness ==
    /\ call.op = "replace" /\ call.err = "none"
    /\ self # NoInstance
    /\ call.ret # NoInstance /\ call.ret # self
    /\ call.ret = Overridden(cls, self, call.kwargs)

\* C9: name-keyed values win.  In a constructor call from values that
\* succeeds, a segment given a keyword value by its name holds that value,
\* whatever positional value it was also given; in a replace call that
\* succeeds, a segment targeted by _N and by its name holds the value given
\* by name.
NameKeyedValuesWin ==
    /\ (call.op = "new" /\ ~FromString(call.args) /\ call.err = "none") =>
          \A k \in 1..Len(call.kwargs) :
              call.ret[SegmentIndex(SEGMENT_DEFINITIONS(cls), call.kwargs[k][1]) + 1]
                  = call.kwargs[k][2]
    /\ (call.op = "replace" /\ call.err = "none") =>
          \A k \in 1..Len(call.kwargs) :
              call.kwargs[k][1] \in SegmentNames(cls) =>
                  call.ret[SegmentIndex(SEGMENT_DEFINITIONS(cls), call.kwargs[k][1]) + 1]
                      = call.kwargs[k][2]

\* A constructor call gave one segment a positional value and another value
\* by name, and returned an instance.
NameKeyedWitness ==
    /\ call.op = "new" /\ ~FromString(call.args) /\ call.err = "none"
    /\ Len(call.kwargs) = 1
    /\ LET i == SegmentIndex(SEGMENT_DEFINITIONS(cls), call.kwargs[1][1]) + 1
       IN /\ i \in 1..Len(call.args)
          /\ ~IsNone(call.args[i]) /\ ~IsNone(call.kwargs[1][2])
          /\ call.args[i] # call.kwargs[1][2]
          /\ call.ret[i] = call.kwargs[1][2]

\* The cooked value of a raw value of segment i (from 1).
CookedValue(cls_, raw, i) ==
    IF ~IsNone(raw[i]) THEN raw[i] ELSE DeclaredDefinition(cls_, i).default

\* The number of values a tuple has set.
SetCount(raw) == Cardinality({i \in 1..Len(raw) : ~IsNone(raw[i])})

\* The text of a value: decimal digits of a number, the release level
\* followed by the serial number of a suffix, nothing of an absent value.
ValueAsText(v) ==
    IF IsNone(v) THEN <<>>
    ELSE IF IsInt(v) THEN IntToText(v[2])
    ELSE IF IsStr(v) THEN v[2]
    ELSE v[2][1][2] \o (IF IsNone(v[2][2]) THEN <<>> ELSE IntToText(v[2][2][2]))

\* The length of the texts of the values set among the first i of raw.
RECURSIVE SetLength(_, _)
SetLength(raw, i) ==
    IF i = 0 THEN 0
    ELSE SetLength(raw, i - 1) + (IF IsNone(raw[i]) THEN 0 ELSE Len(ValueAsText(raw[i])))

\* The number of occurrences of c in a text.
Occurrences(t, c) == Cardinality({i \in 1..Len(t) : t[i] = c})

\* C10: cooked versus raw access.  Access to an instance by index, by slice
\* or by segment name gives, cooked, the raw value where it is set and the
\* segment's declared default where it is absent, and gives, raw, the raw
\* value with absence preserved.  Construction writes no default into the raw
\* tuple: a segment given no value (or given as absent) is absent in the
\* raw tuple of the new instance, and an instance read from a text has
\* values set that are, together, as long as the text without its "."s.
CookedVersusRaw ==
    /\ (call.op \in {"getitem", "get_raw_item"} /\ call.err = "none") =>
          LET item == call.args[1]
              At(i) == IF call.op = "getitem" THEN CookedValue(cls, self, i)
                       ELSE self[i]
          IN IF IsInt(item) THEN call.out = At(item[2] + 1)
             ELSE IF IsStr(item)
                  THEN call.out
                          = At(SegmentIndex(SEGMENT_DEFINITIONS(cls), item[2]) + 1)
             ELSE call.out
                     = T([k \in 1..(item[2][2][2] - item[2][1][2]) |->
                             At(item[2][1][2] + k)])
    /\ (call.op \in {"getitem", "get_raw_item"}) =>
          (call.err = "none" <=>
              (IsStr(call.args[1]) => call.args[1][2] \in SegmentNames(cls)))
    /\ (call.op = "new" /\ ~FromString(call.args) /\ call.err = "none") =>
          \A i \in 1..Len(call.ret) :
              IsNone(GivenValue(cls, call.args, call.kwargs, i))
                  => IsNone(call.ret[i])
    /\ ( /\ call.op \in {"new", "reparse"} /\ FromString(call.args)
         /\ call.err = "none" ) =>
          SetLength(call.ret, Len(call.ret))
              = Len(call.args[1][2]) - Occurrences(call.args[1][2], ".")

\* Cooked access by index to a segment that is absent in raw and has a
\* default returned the default.
CookedVersusRawWitness ==
    /\ call.op = "getitem" /\ call.err = "none"
    /\ IsInt(call.args[1])
    /\ IsNone(self[call.args[1][2] + 1])
    /\ ~IsNone(DeclaredDefinition(cls, call.args[1][2] + 1).default)
    /\ call.out = DeclaredDefinition(cls, call.args[1][2] + 1).default

\* ------------------------------------------------------ rendering, claimed

\* The segments in shown, up to segment i, as text: the cooked value of each,
\* the segment's separator before each but the first of them.
RECURSIVE Joined(_, _, _, _)
Joined(cls_, raw, shown, i) ==
    IF i = 0 THEN <<>>
    ELSE IF i \notin shown THEN Joined(cls_, raw, shown, i - 1)
    ELSE Joined(cls_, raw, shown, i - 1)
         \o (IF \E j \in shown : j < i
             THEN DeclaredDefinition(cls_, i).separator ELSE <<>>)
         \o ValueAsText(CookedValue(cls_, raw, i))

\* Segment i (from 1) has a value to show under the default policy: it is
\* set, or it is unset with a default and either is not optional or comes
\* before a segment that is set.
Shown(cls_, raw, i) ==
    \/ ~IsNone(raw[i])
    \/ /\ ~IsNone(DeclaredDefinition(cls_, i).default)
       /\ \/ ~DeclaredDefinition(cls_, i).optional
          \/ \E j \in (i + 1)..Len(raw) : ~IsNone(raw[j])

ShownSet(cls_, raw) == {i \in 1..Len(raw) : Shown(cls_, raw, i)}

\* The default rendering omits no segment that comes before one it shows.
ShownIsPrefix(cls_, raw) ==
    \A i \in 1..Len(raw) : \A j \in (i + 1)..Len(raw) :
        Shown(cls_, raw, j) => Shown(cls_, raw, i)

\* The last segment of the tuple that is set (0 if none is).
LastSet(raw) ==
    IF \A i \in 1..Len(raw) : IsNone(raw[i]) THEN 0
    ELSE Last({i \in 1..Len(raw) : ~IsNone(raw[i])})

\* C1 as stated: the text str() gave for any instance, read back by the
\* constructor of the scheme, is accepted and gives an instance equal to the
\* first.
RoundTripOfEveryInstance ==
    (call.op = "reparse" /\ self \in Instances(cls)) =>
        call.err = "none" /\ __eq__(cls, call.ret, self)

\* C1, amended: round trip where nothing ambiguous is omitted.  For an
\* instance constructed from values whose default rendering omits no
\* segment that comes before a segment it shows, the text str() gives is
\* accepted by the constructor of the scheme and gives an instance equal
\* to the first.
RoundTripOfPrefixRendering ==
    (call.op = "reparse" /\ self \in Instances(cls) /\ ShownIsPrefix(cls, self)) =>
        call.err = "none" /\ __eq__(cls, call.ret, self)

\* An instance with a segment omitted from its text was read back from it,
\* equal to the first.
RoundTripWitness ==
    /\ call.op = "reparse" /\ call.err = "none"
    /\ self \in Instances(cls)
    /\ ShownIsPrefix(cls, self)
    /\ ShownSet(cls, self) # 1..Len(self)
    /\ __eq__(cls, call.ret, self)

\* C2 as stated: the text str() gave for any instance is accepted by the
\* constructor of the scheme, and str() of the instance read back is the
\* same text.
RenderIdempotentAlways ==
    call.op = "reparse" =>
        call.err = "none" /\ __str__(cls, call.ret) = call.out[2]

\* C2, amended: render idempotence where nothing ambiguous is omitted.  For
\* an instance whose default rendering omits no segment that comes before
\* a segment it shows, the text str() gives is accepted by the constructor
\* of the scheme, and str() of the instance read back is the same text.
RenderIdempotentOnPrefix ==
    (call.op = "reparse" /\ ShownIsPrefix(cls, self)) =>
        call.err = "none" /\ __str__(cls, call.ret) = call.out[2]

\* The instance read back differs in its raw tuple from the first (a default
\* shown in the text is now set) and renders as the same text.
RenderIdempotentWitness ==
    /\ call.op = "reparse" /\ call.err = "none"
    /\ ShownIsPrefix(cls, self)
    /\ call.ret # self
    /\ __str__(cls, call.ret) = call.out[2]

\* ----------------------------------------------------- comparison, claimed

\* a before b for two values of one segment, an absent value before any
\* other: numbers by size, texts by code points, tuples by their first
\* differing elements.
RECURSIVE Smaller(_, _)
Smaller(a, b) ==
    IF IsNone(a) THEN ~IsNone(b)
    ELSE IF IsNone(b) THEN FALSE
    ELSE IF IsInt(a) THEN a[2] < b[2]
    ELSE IF IsStr(a) THEN TextLess(a[2], b[2])
    ELSE \E k \in 1..Len(a[2]) :
            /\ \A j \in 1..(k - 1) : a[2][j] = b[2][j]
            /\ a[2][k] # b[2][k]
            /\ Smaller(a[2][k], b[2][k])

\* s lexicographically before t, the first element the most significant.
LexSmaller(s, t) ==
    \/ Len(s) < Len(t) /\ s = SubSeq(t, 1, Len(s))
    \/ \E k \in 1..Len(s) :
          /\ k <= Len(t)
          /\ \A j \in 1..(k - 1) : s[j] = t[j]
          /\ s[k] # t[k]
          /\ Smaller(s[k], t[k])

Booleans == {"True", "False"}

\* C3: ordering totality.  For the instance and any other instance of its
\* scheme type, a < b, a == b and b < a each give a boolean, and exactly one
\* of the three is true.
OrderingTotality ==
    call.op \in {"lt", "eq"} =>
        LET other == call.args[1][2]
            lt == IF call.op = "lt" THEN call.out[2][1]
                  ELSE __lt__(cls, self, other, py2)
            eq == IF call.op = "eq" THEN call.out[2][1] = "True"
                  ELSE __eq__(cls, self, other)
            gt == __lt__(cls, other, self, py2)
        IN /\ lt \in Booleans /\ gt \in Booleans
           /\ Cardinality({x \in {"lt", "eq", "gt"} :
                 \/ x = "lt" /\ lt = "True"
                 \/ x = "eq" /\ eq
                 \/ x = "gt" /\ gt = "True"}) = 1

\* C4: equality and less-than are decided by the cooked tuples.  a == b
\* gives true exactly when the cooked tuples are the same, and a < b gives
\* true exactly when the cooked tuple of a is lexicographically before that
\* of b, and false otherwise.
DecidedByCookedTuples ==
    /\ call.op = "eq" =>
          (call.out = Answer("True")
              <=> [i \in 1..Len(self) |-> CookedValue(cls, self, i)]
                  = [i \in 1..Len(call.args[1][2]) |->
                        CookedValue(cls, call.args[1][2], i)])
    /\ call.op = "eq" => call.out[2][1] \in Booleans
    /\ call.op = "lt" =>
          call.out = Answer(IF LexSmaller(
                                  [i \in 1..Len(self) |-> CookedValue(cls, self, i)],
                                  [i \in 1..Len(call.args[1][2]) |->
                                      CookedValue(cls, call.args[1][2], i)])
                            THEN "True" ELSE "False")

\* C5 as stated: default omission.  str() of an instance shows no trailing
\* optional segment that is unset, and shows every segment up to the last
\* one that is set, an unset one among them by its default.
DefaultOmissionUpToLastSet ==
    call.op = "str" =>
        \E shown \in SUBSET (1..Len(self)) :
            /\ \A i \in 1..Len(self) :
                  (i > LastSet(self) /\ DeclaredDefinition(cls, i).optional)
                      => i \notin shown
            /\ \A i \in 1..LastSet(self) : i \in shown
            /\ call.out = S(Joined(cls, self, shown, Len(self)))

\* C5, amended: default omission.  str() of an instance shows no trailing
\* optional segment that is unset, and shows, up to the last segment that is
\* set, every segment that is set or has a default, an unset one by its
\* default; an unset segment without a default is skipped wherever it
\* stands, and an unset segment that is not optional is shown by its
\* default also after the last segment that is set.
DefaultOmission ==
    call.op = "str" =>
        /\ call.out = S(Joined(cls, self, ShownSet(cls, self), Len(self)))
        /\ \A i \in (LastSet(self) + 1)..Len(self) :
              DeclaredDefinition(cls, i).optional => i \notin ShownSet(cls, self)
        /\ \A i \in 1..LastSet(self) :
              i \in ShownSet(cls, self)
                  <=> ~IsNone(CookedValue(cls, self, i))

\* str() of an instance in which an unset optional segment with a default
\* stands before a segment that is set: the text shows the default.
DefaultOmissionWitness ==
    /\ call.op = "str"
    /\ \E i \in 1..Len(self) :
          /\ IsNone(self[i])
          /\ DeclaredDefinition(cls, i).optional
          /\ ~IsNone(DeclaredDefinition(cls, i).default)
          /\ i < LastSet(self)
          /\ i \in ShownSet(cls, self)
    /\ call.out = S(Joined(cls, self, ShownSet(cls, self), Len(self)))

\* ------------------------------------------------ other values, claimed

\* C11: comparison with a value that is no scheme instance.  The instance is
\* coerced to the type of the other value by passing the instance itself,
\* and only if that raises by passing its rendered string; == and < then
\* answer what the coerced value answers against the other.  If both tries
\* raise, == answers false and < answers NotImplemented: neither answers a
\* boolean for the ordering nor lets the TypeError or ValueError of the
\* coercion out.
CoercionThenComparison ==
    call.op \in {"eq_other", "lt_other"} =>
        LET other == call.args[1]
            text == ValueAsText(S(Joined(cls, self, ShownSet(cls, self), Len(self))))
            byInstance == TypeCall(TypeOf(other), T(self), text)
            byString == TypeCall(TypeOf(other), S(text), text)
            coerced == IF byInstance.err = "none" THEN byInstance.val
                       ELSE byString.val
        IN IF byInstance.err # "none" /\ byString.err # "none"
           THEN call.out = Answer(IF call.op = "eq_other" THEN "False"
                                  ELSE "NotImplemented")
           ELSE /\ TypeOf(coerced) = TypeOf(other)
                /\ call.out = Answer(
                       IF call.op = "eq_other"
                       THEN (IF coerced = other THEN "True" ELSE "False")
                       ELSE CoercedLess(coerced, other, py2))

\* An instance compared equal to a pair of integers through its rendered
\* string, the try with the instance itself having raised.
CoercionWitness ==
    /\ call.op = "eq_other"
    /\ IsPair(call.args[1])
    /\ TypeCall("Pair", T(self), __str__(cls, self)).err = "TypeError"
    /\ call.out = Answer("True")

\* The text MAJOR.MINOR.MICRO of three numbers.
ThreeNumbers(a, b, c) ==
    NatToText(a) \o <<".">> \o NatToText(b) \o <<".">> \o NatToText(c)

\* C12: multi-field suffix parsing of PythonVersion.  A text
\* MAJOR.MINOR.MICRO with nothing after it gives the three numbers and an
\* absent suffix; followed by a, b or c and a serial number it gives the
\* suffix (letter, serial as a number); followed by "+" alone it gives the
\* suffix ("+", absent); followed by "+" and a serial number, or by a letter
\* a, b or c without a serial number, it is rejected.
SuffixParsing ==
    (call.op = "new" /\ cls = "PythonVersion" /\ FromString(call.args)) =>
        \A a \in 0..(MaxInt + 1), b \in 0..(MaxInt + 1), c \in 0..(MaxInt + 1) :
            LET head == ThreeNumbers(a, b, c)
                text == call.args[1][2]
                Gives(suffix) ==
                    /\ call.err = "none"
                    /\ call.ret = <<I(a), I(b), I(c), suffix>>
                Rejected == call.err = "ValueError" /\ call.ret = NoInstance
            IN /\ text = head => Gives(None)
               /\ text = head \o <<"+">> => Gives(T(<<S(<<"+">>), None>>))
               /\ \A l \in {"a", "b", "c"} :
                     /\ text = head \o <<l>> => Rejected
                     /\ \A n \in 0..(MaxInt + 1) :
                           text = head \o <<l>> \o NatToText(n)
                               => Gives(T(<<S(<<l>>), I(n)>>))
               /\ \A n \in 0..(MaxInt + 1) :
                     text = head \o <<"+">> \o NatToText(n) => Rejected

\* A text of three numbers, a release level b and a serial number was read
\* as PythonVersion with the suffix (b, serial).
SuffixParsingWitness ==
    /\ call.op = "new" /\ cls = "PythonVersion" /\ FromString(call.args)
    /\ call.err = "none"
    /\ Len(call.args[1][2]) = Len(ThreeNumbers(0, 0, 0)) + 2
    /\ call.args[1][2][Len(call.args[1][2]) - 1] = "b"
    /\ call.ret[4] = T(<<S(<<"b">>), I(DigitVal(call.args[1][2][Len(call.args[1][2])]))>>)

\* The segments of raw that a text gave a value.
Present(raw) == {i \in 1..Len(raw) : ~IsNone(raw[i])}

\* The values of the present segments in order, each but the first of them
\* after its separator.
PresentJoined(cls_, raw) == Joined(cls_, raw, Present(raw), Len(raw))

\* The separator of the first present segment, when that is not segment 1.
LeadingSeparator(cls_, raw) ==
    LET first == CHOOSE i \in Present(raw) : \A j \in Present(raw) : i <= j
    IN IF Present(raw) = {} \/ first = 1 THEN <<>>
       ELSE DeclaredDefinition(cls_, first).separator

\* C14: a text that the grammar of a bounded scheme accepts is the values of
\* its present segments in order, every present segment that has a present
\* segment before it preceded by its separator; only the first present
\* segment may stand without its separator.
SeparatorMandatoryBetweenPresent ==
    (/\ call.op = "new" /\ FromString(call.args) /\ call.err = "none"
     /\ Len(SEGMENT_DEFINITIONS(cls)) > 0) =>
        \/ call.args[1][2] = PresentJoined(cls, call.ret)
        \/ call.args[1][2] = LeadingSeparator(cls, call.ret) \o PresentJoined(cls, call.ret)

\* The built-in default exclusion answers true for segment i (from 1): the
\* segment is optional and neither it nor a later segment is set.
DefaultExcluded(cls_, raw, i) ==
    /\ DeclaredDefinition(cls_, i).optional
    /\ \A j \in i..Len(raw) : IsNone(raw[j])

\* Some callback of the list answers true for segment i (from 1).
AnyAffirms(callbacks, i) == \E c \in 1..Len(callbacks) : (i - 1) \in callbacks[c]

\* The segments (from 1) that the two-phase policy renders.
RenderedByPolicy(cls_, raw, exclude_defaults, include_callbacks, exclude_callbacks) ==
    {i \in 1..Len(raw) :
        /\ ~(DeclaredDefinition(cls_, i).optional /\ IsNone(CookedValue(cls_, raw, i)))
        /\ \/ AnyAffirms(include_callbacks, i)
           \/ /\ ~AnyAffirms(exclude_callbacks, i)
              /\ ~(exclude_defaults /\ DefaultExcluded(cls_, raw, i))}

\* C15: render gives the text of exactly the segments that the two-phase
\* policy selects: never an optional segment whose cooked value is absent;
\* otherwise a segment for which an include callback answers true, whatever
\* the exclude callbacks answer; otherwise a segment for which no exclude
\* callback, the built-in default exclusion under exclude_defaults
\* included, answers true.  With exclude_defaults false and no callbacks it
\* is the text of every segment whose cooked value is not absent.
TwoPhaseRenderPolicy ==
    call.op = "render" =>
        /\ call.out = S(Joined(cls, self, RenderedByPolicy(cls, self, call.args[1], call.args[2], call.args[3]), Len(self)))
        /\ (~call.args[1] /\ call.args[2] = <<>> /\ call.args[3] = <<>>) =>
              call.out = S(Joined(cls, self, {i \in 1..Len(self) : ~IsNone(CookedValue(cls, self, i))}, Len(self)))

\* Under exclude_defaults and an exclude callback that answers true for
\* every segment, an include callback brought back the unset third segment
\* with its default, alone.
TwoPhaseRenderWitness ==
    /\ call.op = "render" /\ cls = "Scenario"
    /\ self = <<I(1), I(1), None>>
    /\ call.args = <<TRUE, <<{2}, {}>>, <<0..2>>>>
    /\ call.out = S(<<"0">>)

\* C16: the derived comparison operators agree with == and <.  For two
\* instances a and b of one scheme, a != b gives true exactly when a == b
\* does not, a > b exactly when b < a does, a <= b exactly when a < b or
\* a == b does, and a >= b exactly when b < a or a == b does.
DerivedOperatorsAgree ==
    LET a == self
        b == call.args[1][2]
        Holds(x) == x = "True"
    IN /\ call.op = "ne" => (call.out = Answer("True") <=> ~__eq__(cls, a, b))
       /\ call.op = "gt" => (call.out = Answer("True") <=> Holds(__lt__(cls, b, a, py2)))
       /\ call.op = "le" => (call.out = Answer("True") <=> (Holds(__lt__(cls, a, b, py2)) \/ __eq__(cls, a, b)))
       /\ call.op = "ge" => (call.out = Answer("True") <=> (Holds(__lt__(cls, b, a, py2)) \/ __eq__(cls, a, b)))

====
